---- MODULE Spec2Model ----
(***************************************************************************)
(* Model of demo_agent_system.py: the audit ledger (AuditTrail), the       *)
(* compliance policy (ComplianceCheck), the three stage agents and the     *)
(* orchestrator (AgentOrchestrator.research_investment).                   *)
(*                                                                         *)
(* A Python str is a sequence of one-character strings, so that lower(),   *)
(* the `in` substring test, slicing, split() and concatenation are         *)
(* computed character by character as the interpreter computes them.       *)
(* A cost_usd is an integer number of 10^-5 USD (0.002 USD = 200), and a   *)
(* success_rate an integer number of hundredths of a percent.              *)
(***************************************************************************)
EXTENDS Integers, Sequences, FiniteSets, TLC

\* ---------------------------------------------------------------- literals

\* "insider trading"
KwInsiderTrading ==
  << "i", "n", "s", "i", "d", "e", "r", " ", "t", "r", "a", "d", "i", "n",
    "g" >>

\* "market manipulation"
KwMarketManipulation ==
  << "m", "a", "r", "k", "e", "t", " ", "m", "a", "n", "i", "p", "u", "l",
    "a", "t", "i", "o", "n" >>

\* "money laundering"
KwMoneyLaundering ==
  << "m", "o", "n", "e", "y", " ", "l", "a", "u", "n", "d", "e", "r", "i",
    "n", "g" >>

\* "guaranteed returns"
KwGuaranteedReturns ==
  << "g", "u", "a", "r", "a", "n", "t", "e", "e", "d", " ", "r", "e", "t",
    "u", "r", "n", "s" >>

\* "risk-free investment"
KwRiskFreeInvestment ==
  << "r", "i", "s", "k", "-", "f", "r", "e", "e", " ", "i", "n", "v", "e",
    "s", "t", "m", "e", "n", "t" >>

\* ComplianceCheck.RESTRICTED_KEYWORDS, in table order
RESTRICTED_KEYWORDS ==
  << KwInsiderTrading, KwMarketManipulation, KwMoneyLaundering,
     KwGuaranteedReturns, KwRiskFreeInvestment >>

\* "you should"
IndYouShould ==
  << "y", "o", "u", " ", "s", "h", "o", "u", "l", "d" >>

\* "i recommend"
IndIRecommend ==
  << "i", " ", "r", "e", "c", "o", "m", "m", "e", "n", "d" >>

\* "best investment"
IndBestInvestment ==
  << "b", "e", "s", "t", " ", "i", "n", "v", "e", "s", "t", "m", "e", "n",
    "t" >>

advice_indicators == << IndYouShould, IndIRecommend, IndBestInvestment >>

\* "not financial advice"
NotFinancialAdvice ==
  << "n", "o", "t", " ", "f", "i", "n", "a", "n", "c", "i", "a", "l", " ",
    "a", "d", "v", "i", "c", "e" >>

\* "for informational purposes"
ForInformationalPurposes ==
  << "f", "o", "r", " ", "i", "n", "f", "o", "r", "m", "a", "t", "i", "o",
    "n", "a", "l", " ", "p", "u", "r", "p", "o", "s", "e", "s" >>

\* "Output contains restricted keyword: '"
RestrictedMsgPrefix ==
  << "O", "u", "t", "p", "u", "t", " ", "c", "o", "n", "t", "a", "i", "n",
    "s", " ", "r", "e", "s", "t", "r", "i", "c", "t", "e", "d", " ", "k",
    "e", "y", "w", "o", "r", "d", ":", " ", "'" >>

\* the closing quote of the restricted-keyword message
Apostrophe ==
  << "'" >>

\* "Output appears to provide financial advice without disclaimer"
AdviceMsg ==
  << "O", "u", "t", "p", "u", "t", " ", "a", "p", "p", "e", "a", "r", "s",
    " ", "t", "o", " ", "p", "r", "o", "v", "i", "d", "e", " ", "f", "i",
    "n", "a", "n", "c", "i", "a", "l", " ", "a", "d", "v", "i", "c", "e",
    " ", "w", "i", "t", "h", "o", "u", "t", " ", "d", "i", "s", "c", "l",
    "a", "i", "m", "e", "r" >>

\* the disclaimer block of add_disclaimers, from its two "\n"
disclaimer ==
  << "\n", "\n", "-", "-", "-", " ", "D", "I", "S", "C", "L", "A", "I", "M",
    "E", "R", " ", "-", "-", "-", "\n", "T", "h", "i", "s", " ", "i", "n",
    "f", "o", "r", "m", "a", "t", "i", "o", "n", " ", "i", "s", " ", "f",
    "o", "r", " ", "e", "d", "u", "c", "a", "t", "i", "o", "n", "a", "l",
    " ", "a", "n", "d", " ", "i", "n", "f", "o", "r", "m", "a", "t", "i",
    "o", "n", "a", "l", " ", "p", "u", "r", "p", "o", "s", "e", "s", " ",
    "o", "n", "l", "y", ".", " ", "I", "t", " ", "d", "o", "e", "s", " ",
    "n", "o", "t", " ", "c", "o", "n", "s", "t", "i", "t", "u", "t", "e",
    " ", "f", "i", "n", "a", "n", "c", "i", "a", "l", " ", "a", "d", "v",
    "i", "c", "e", ".", " ", "P", "l", "e", "a", "s", "e", " ", "c", "o",
    "n", "s", "u", "l", "t", " ", "w", "i", "t", "h", " ", "a", " ", "q",
    "u", "a", "l", "i", "f", "i", "e", "d", " ", "f", "i", "n", "a", "n",
    "c", "i", "a", "l", " ", "p", "r", "o", "f", "e", "s", "s", "i", "o",
    "n", "a", "l", " ", "b", "e", "f", "o", "r", "e", " ", "m", "a", "k",
    "i", "n", "g", " ", "i", "n", "v", "e", "s", "t", "m", "e", "n", "t",
    " ", "d", "e", "c", "i", "s", "i", "o", "n", "s", "." >>

\* "Error", the substring research_investment looks for
ErrorMarker ==
  << "E", "r", "r", "o", "r" >>

\* "Error during research: "
ResearchErrorPrefix ==
  << "E", "r", "r", "o", "r", " ", "d", "u", "r", "i", "n", "g", " ", "r",
    "e", "s", "e", "a", "r", "c", "h", ":", " " >>

\* "Error during analysis: "
AnalysisErrorPrefix ==
  << "E", "r", "r", "o", "r", " ", "d", "u", "r", "i", "n", "g", " ", "a",
    "n", "a", "l", "y", "s", "i", "s", ":", " " >>

\* "Compliance check error: "
ComplianceErrorPrefix ==
  << "C", "o", "m", "p", "l", "i", "a", "n", "c", "e", " ", "c", "h", "e",
    "c", "k", " ", "e", "r", "r", "o", "r", ":", " " >>

\* "Compliance check failed: "
ComplianceFailedPrefix ==
  << "C", "o", "m", "p", "l", "i", "a", "n", "c", "e", " ", "c", "h", "e",
    "c", "k", " ", "f", "a", "i", "l", "e", "d", ":", " " >>

\* "..." closing the preview stored in output_data
Ellipsis ==
  << ".", ".", "." >>

\* "\n\n" joining research and analysis for the review
BlankLine ==
  << "\n", "\n" >>

\* "investment_research", the content_type of the review
InvestmentResearch ==
  << "i", "n", "v", "e", "s", "t", "m", "e", "n", "t", "_", "r", "e", "s",
    "e", "a", "r", "c", "h" >>

\* MockLLM.generate_research: the template around its three {company_name}
ResearchTemplate0 ==
  << "\n", "C", "O", "M", "P", "A", "N", "Y", " ", "R", "E", "S", "E", "A",
    "R", "C", "H", ":", " " >>

ResearchTemplate1 ==
  << "\n", "\n", "C", "o", "m", "p", "a", "n", "y", " ", "O", "v", "e", "r",
    "v", "i", "e", "w", ":", "\n" >>

ResearchTemplate2 ==
  << " ", "i", "s", " ", "a", " ", "l", "e", "a", "d", "i", "n", "g", " ",
    "c", "o", "m", "p", "a", "n", "y", " ", "i", "n", " ", "i", "t", "s",
    " ", "s", "e", "c", "t", "o", "r", " ", "w", "i", "t", "h", " ", "s",
    "i", "g", "n", "i", "f", "i", "c", "a", "n", "t", " ", "m", "a", "r",
    "k", "e", "t", " ", "p", "r", "e", "s", "e", "n", "c", "e", ".", " ",
    "T", "h", "e", " ", "c", "o", "m", "p", "a", "n", "y", " ", "h", "a",
    "s", " ", "d", "e", "m", "o", "n", "s", "t", "r", "a", "t", "e", "d",
    " ", "c", "o", "n", "s", "i", "s", "t", "e", "n", "t", " ", "p", "e",
    "r", "f", "o", "r", "m", "a", "n", "c", "e", " ", "o", "v", "e", "r",
    " ", "r", "e", "c", "e", "n", "t", " ", "q", "u", "a", "r", "t", "e",
    "r", "s", ".", "\n", "\n", "R", "e", "c", "e", "n", "t", " ", "F", "i",
    "n", "a", "n", "c", "i", "a", "l", " ", "P", "e", "r", "f", "o", "r",
    "m", "a", "n", "c", "e", ":", "\n", "-", " ", "R", "e", "v", "e", "n",
    "u", "e", " ", "g", "r", "o", "w", "t", "h", " ", "o", "f", " ", "1",
    "5", "%", " ", "y", "e", "a", "r", "-", "o", "v", "e", "r", "-", "y",
    "e", "a", "r", "\n", "-", " ", "S", "t", "r", "o", "n", "g", " ", "p",
    "r", "o", "f", "i", "t", " ", "m", "a", "r", "g", "i", "n", "s", " ",
    "m", "a", "i", "n", "t", "a", "i", "n", "e", "d", " ", "a", "t", " ",
    "i", "n", "d", "u", "s", "t", "r", "y", "-", "l", "e", "a", "d", "i",
    "n", "g", " ", "l", "e", "v", "e", "l", "s", "\n", "-", " ", "S", "u",
    "c", "c", "e", "s", "s", "f", "u", "l", " ", "e", "x", "p", "a", "n",
    "s", "i", "o", "n", " ", "i", "n", "t", "o", " ", "n", "e", "w", " ",
    "m", "a", "r", "k", "e", "t", "s", "\n", "-", " ", "P", "o", "s", "i",
    "t", "i", "v", "e", " ", "c", "a", "s", "h", " ", "f", "l", "o", "w",
    " ", "g", "e", "n", "e", "r", "a", "t", "i", "o", "n", "\n", "\n", "R",
    "e", "c", "e", "n", "t", " ", "D", "e", "v", "e", "l", "o", "p", "m",
    "e", "n", "t", "s", ":", "\n", "-", " ", "L", "a", "u", "n", "c", "h",
    "e", "d", " ", "n", "e", "w", " ", "p", "r", "o", "d", "u", "c", "t",
    " ", "l", "i", "n", "e", " ", "i", "n", " ", "Q", "4", "\n", "-", " ",
    "A", "n", "n", "o", "u", "n", "c", "e", "d", " ", "s", "t", "r", "a",
    "t", "e", "g", "i", "c", " ", "p", "a", "r", "t", "n", "e", "r", "s",
    "h", "i", "p", " ", "w", "i", "t", "h", " ", "m", "a", "j", "o", "r",
    " ", "i", "n", "d", "u", "s", "t", "r", "y", " ", "p", "l", "a", "y",
    "e", "r", "\n", "-", " ", "E", "x", "p", "a", "n", "d", "e", "d", " ",
    "o", "p", "e", "r", "a", "t", "i", "o", "n", "s", " ", "t", "o", " ",
    "t", "h", "r", "e", "e", " ", "n", "e", "w", " ", "r", "e", "g", "i",
    "o", "n", "s", "\n", "-", " ", "R", "e", "c", "e", "i", "v", "e", "d",
    " ", "p", "o", "s", "i", "t", "i", "v", "e", " ", "a", "n", "a", "l",
    "y", "s", "t", " ", "r", "a", "t", "i", "n", "g", "s", " ", "f", "r",
    "o", "m", " ", "m", "a", "j", "o", "r", " ", "i", "n", "v", "e", "s",
    "t", "m", "e", "n", "t", " ", "f", "i", "r", "m", "s", "\n", "\n", "M",
    "a", "r", "k", "e", "t", " ", "P", "o", "s", "i", "t", "i", "o", "n",
    ":", "\n" >>

ResearchTemplate3 ==
  << " ", "m", "a", "i", "n", "t", "a", "i", "n", "s", " ", "a", " ", "c",
    "o", "m", "p", "e", "t", "i", "t", "i", "v", "e", " ", "p", "o", "s",
    "i", "t", "i", "o", "n", " ", "w", "i", "t", "h", " ", "s", "t", "r",
    "o", "n", "g", " ", "b", "r", "a", "n", "d", " ", "r", "e", "c", "o",
    "g", "n", "i", "t", "i", "o", "n", " ", "a", "n", "d", " ", "c", "u",
    "s", "t", "o", "m", "e", "r", " ", "l", "o", "y", "a", "l", "t", "y",
    ".", " ", "T", "h", "e", " ", "c", "o", "m", "p", "a", "n", "y", "'",
    "s", " ", "m", "a", "r", "k", "e", "t", " ", "s", "h", "a", "r", "e",
    " ", "h", "a", "s", " ", "b", "e", "e", "n", " ", "g", "r", "o", "w",
    "i", "n", "g", " ", "s", "t", "e", "a", "d", "i", "l", "y", ",", " ",
    "s", "u", "p", "p", "o", "r", "t", "e", "d", " ", "b", "y", " ", "i",
    "n", "n", "o", "v", "a", "t", "i", "o", "n", " ", "a", "n", "d", " ",
    "o", "p", "e", "r", "a", "t", "i", "o", "n", "a", "l", " ", "e", "x",
    "c", "e", "l", "l", "e", "n", "c", "e", ".", "\n" >>

\* MockLLM.generate_analysis: the template around its two {company_name}
AnalysisTemplate0 ==
  << "\n", "I", "N", "V", "E", "S", "T", "M", "E", "N", "T", " ", "A", "N",
    "A", "L", "Y", "S", "I", "S", ":", " " >>

AnalysisTemplate1 ==
  << "\n", "\n", "K", "e", "y", " ", "S", "t", "r", "e", "n", "g", "t", "h",
    "s", ":", "\n", "1", ".", " ", "S", "t", "r", "o", "n", "g", " ", "M",
    "a", "r", "k", "e", "t", " ", "P", "o", "s", "i", "t", "i", "o", "n",
    ":", " ", "L", "e", "a", "d", "i", "n", "g", " ", "p", "l", "a", "y",
    "e", "r", " ", "w", "i", "t", "h", " ", "e", "s", "t", "a", "b", "l",
    "i", "s", "h", "e", "d", " ", "b", "r", "a", "n", "d", " ", "a", "n",
    "d", " ", "c", "u", "s", "t", "o", "m", "e", "r", " ", "b", "a", "s",
    "e", "\n", "2", ".", " ", "R", "e", "v", "e", "n", "u", "e", " ", "G",
    "r", "o", "w", "t", "h", ":", " ", "C", "o", "n", "s", "i", "s", "t",
    "e", "n", "t", " ", "d", "o", "u", "b", "l", "e", "-", "d", "i", "g",
    "i", "t", " ", "g", "r", "o", "w", "t", "h", " ", "t", "r", "a", "j",
    "e", "c", "t", "o", "r", "y", "\n", "3", ".", " ", "F", "i", "n", "a",
    "n", "c", "i", "a", "l", " ", "H", "e", "a", "l", "t", "h", ":", " ",
    "S", "t", "r", "o", "n", "g", " ", "b", "a", "l", "a", "n", "c", "e",
    " ", "s", "h", "e", "e", "t", " ", "w", "i", "t", "h", " ", "h", "e",
    "a", "l", "t", "h", "y", " ", "c", "a", "s", "h", " ", "r", "e", "s",
    "e", "r", "v", "e", "s", "\n", "4", ".", " ", "I", "n", "n", "o", "v",
    "a", "t", "i", "o", "n", " ", "P", "i", "p", "e", "l", "i", "n", "e",
    ":", " ", "C", "o", "n", "t", "i", "n", "u", "e", "d", " ", "i", "n",
    "v", "e", "s", "t", "m", "e", "n", "t", " ", "i", "n", " ", "R", "&",
    "D", " ", "a", "n", "d", " ", "n", "e", "w", " ", "p", "r", "o", "d",
    "u", "c", "t", "s", "\n", "\n", "K", "e", "y", " ", "R", "i", "s", "k",
    "s", ":", "\n", "1", ".", " ", "M", "a", "r", "k", "e", "t", " ", "C",
    "o", "m", "p", "e", "t", "i", "t", "i", "o", "n", ":", " ", "I", "n",
    "t", "e", "n", "s", "i", "f", "y", "i", "n", "g", " ", "c", "o", "m",
    "p", "e", "t", "i", "t", "i", "o", "n", " ", "f", "r", "o", "m", " ",
    "n", "e", "w", " ", "e", "n", "t", "r", "a", "n", "t", "s", "\n", "2",
    ".", " ", "E", "c", "o", "n", "o", "m", "i", "c", " ", "S", "e", "n",
    "s", "i", "t", "i", "v", "i", "t", "y", ":", " ", "P", "e", "r", "f",
    "o", "r", "m", "a", "n", "c", "e", " ", "t", "i", "e", "d", " ", "t",
    "o", " ", "b", "r", "o", "a", "d", "e", "r", " ", "e", "c", "o", "n",
    "o", "m", "i", "c", " ", "c", "o", "n", "d", "i", "t", "i", "o", "n",
    "s", "\n", "3", ".", " ", "R", "e", "g", "u", "l", "a", "t", "o", "r",
    "y", " ", "E", "n", "v", "i", "r", "o", "n", "m", "e", "n", "t", ":",
    " ", "P", "o", "t", "e", "n", "t", "i", "a", "l", " ", "r", "e", "g",
    "u", "l", "a", "t", "o", "r", "y", " ", "c", "h", "a", "n", "g", "e",
    "s", " ", "c", "o", "u", "l", "d", " ", "i", "m", "p", "a", "c", "t",
    " ", "o", "p", "e", "r", "a", "t", "i", "o", "n", "s", "\n", "4", ".",
    " ", "O", "p", "e", "r", "a", "t", "i", "o", "n", "a", "l", " ", "C",
    "o", "m", "p", "l", "e", "x", "i", "t", "y", ":", " ", "S", "c", "a",
    "l", "e", " ", "b", "r", "i", "n", "g", "s", " ", "i", "n", "c", "r",
    "e", "a", "s", "e", "d", " ", "c", "o", "m", "p", "l", "e", "x", "i",
    "t", "y", " ", "i", "n", " ", "m", "a", "n", "a", "g", "e", "m", "e",
    "n", "t", "\n", "\n", "M", "a", "r", "k", "e", "t", " ", "O", "p", "p",
    "o", "r", "t", "u", "n", "i", "t", "i", "e", "s", ":", "\n", "-", " ",
    "E", "x", "p", "a", "n", "s", "i", "o", "n", " ", "i", "n", "t", "o",
    " ", "e", "m", "e", "r", "g", "i", "n", "g", " ", "m", "a", "r", "k",
    "e", "t", "s", "\n", "-", " ", "D", "i", "g", "i", "t", "a", "l", " ",
    "t", "r", "a", "n", "s", "f", "o", "r", "m", "a", "t", "i", "o", "n",
    " ", "i", "n", "i", "t", "i", "a", "t", "i", "v", "e", "s", "\n", "-",
    " ", "S", "t", "r", "a", "t", "e", "g", "i", "c", " ", "a", "c", "q",
    "u", "i", "s", "i", "t", "i", "o", "n", "s", " ", "i", "n", " ", "a",
    "d", "j", "a", "c", "e", "n", "t", " ", "m", "a", "r", "k", "e", "t",
    "s", "\n", "-", " ", "P", "r", "o", "d", "u", "c", "t", " ", "l", "i",
    "n", "e", " ", "e", "x", "t", "e", "n", "s", "i", "o", "n", "s", "\n",
    "\n", "T", "h", "r", "e", "a", "t", "s", ":", "\n", "-", " ", "D", "i",
    "s", "r", "u", "p", "t", "i", "v", "e", " ", "t", "e", "c", "h", "n",
    "o", "l", "o", "g", "i", "e", "s", " ", "f", "r", "o", "m", " ", "c",
    "o", "m", "p", "e", "t", "i", "t", "o", "r", "s", "\n", "-", " ", "E",
    "c", "o", "n", "o", "m", "i", "c", " ", "d", "o", "w", "n", "t", "u",
    "r", "n", " ", "r", "i", "s", "k", "s", "\n", "-", " ", "S", "u", "p",
    "p", "l", "y", " ", "c", "h", "a", "i", "n", " ", "v", "u", "l", "n",
    "e", "r", "a", "b", "i", "l", "i", "t", "i", "e", "s", "\n", "-", " ",
    "C", "h", "a", "n", "g", "i", "n", "g", " ", "c", "o", "n", "s", "u",
    "m", "e", "r", " ", "p", "r", "e", "f", "e", "r", "e", "n", "c", "e",
    "s", "\n", "\n", "I", "n", "v", "e", "s", "t", "m", "e", "n", "t", " ",
    "C", "o", "n", "s", "i", "d", "e", "r", "a", "t", "i", "o", "n", "s",
    ":", "\n", "B", "a", "s", "e", "d", " ", "o", "n", " ", "t", "h", "e",
    " ", "a", "v", "a", "i", "l", "a", "b", "l", "e", " ", "i", "n", "f",
    "o", "r", "m", "a", "t", "i", "o", "n", ",", " " >>

AnalysisTemplate2 ==
  << " ", "d", "e", "m", "o", "n", "s", "t", "r", "a", "t", "e", "s", " ",
    "s", "e", "v", "e", "r", "a", "l", " ", "p", "o", "s", "i", "t", "i",
    "v", "e", " ", "i", "n", "d", "i", "c", "a", "t", "o", "r", "s", " ",
    "i", "n", "c", "l", "u", "d", "i", "n", "g", " ", "s", "t", "r", "o",
    "n", "g", " ", "f", "i", "n", "a", "n", "c", "i", "a", "l", " ", "p",
    "e", "r", "f", "o", "r", "m", "a", "n", "c", "e", ",", " ", "m", "a",
    "r", "k", "e", "t", " ", "l", "e", "a", "d", "e", "r", "s", "h", "i",
    "p", ",", " ", "a", "n", "d", " ", "g", "r", "o", "w", "t", "h", " ",
    "t", "r", "a", "j", "e", "c", "t", "o", "r", "y", ".", " ", "H", "o",
    "w", "e", "v", "e", "r", ",", " ", "i", "n", "v", "e", "s", "t", "o",
    "r", "s", " ", "s", "h", "o", "u", "l", "d", " ", "c", "a", "r", "e",
    "f", "u", "l", "l", "y", " ", "c", "o", "n", "s", "i", "d", "e", "r",
    " ", "t", "h", "e", " ", "i", "d", "e", "n", "t", "i", "f", "i", "e",
    "d", " ", "r", "i", "s", "k", "s", " ", "a", "n", "d", " ", "c", "o",
    "n", "d", "u", "c", "t", " ", "t", "h", "o", "r", "o", "u", "g", "h",
    " ", "d", "u", "e", " ", "d", "i", "l", "i", "g", "e", "n", "c", "e",
    ".", " ", "D", "i", "v", "e", "r", "s", "i", "f", "i", "c", "a", "t",
    "i", "o", "n", " ", "r", "e", "m", "a", "i", "n", "s", " ", "i", "m",
    "p", "o", "r", "t", "a", "n", "t", ",", " ", "a", "n", "d", " ", "t",
    "h", "i", "s", " ", "a", "n", "a", "l", "y", "s", "i", "s", " ", "s",
    "h", "o", "u", "l", "d", " ", "b", "e", " ", "o", "n", "e", " ", "i",
    "n", "p", "u", "t", " ", "a", "m", "o", "n", "g", " ", "m", "a", "n",
    "y", " ", "i", "n", " ", "i", "n", "v", "e", "s", "t", "m", "e", "n",
    "t", " ", "d", "e", "c", "i", "s", "i", "o", "n", "-", "m", "a", "k",
    "i", "n", "g", ".", "\n", "\n", "N", "o", "t", "e", ":", " ", "T", "h",
    "i", "s", " ", "a", "n", "a", "l", "y", "s", "i", "s", " ", "i", "s",
    " ", "b", "a", "s", "e", "d", " ", "o", "n", " ", "p", "u", "b", "l",
    "i", "c", "l", "y", " ", "a", "v", "a", "i", "l", "a", "b", "l", "e",
    " ", "i", "n", "f", "o", "r", "m", "a", "t", "i", "o", "n", " ", "a",
    "n", "d", " ", "s", "h", "o", "u", "l", "d", " ", "n", "o", "t", " ",
    "b", "e", " ", "t", "h", "e", " ", "s", "o", "l", "e", " ", "b", "a",
    "s", "i", "s", " ", "f", "o", "r", " ", "i", "n", "v", "e", "s", "t",
    "m", "e", "n", "t", " ", "d", "e", "c", "i", "s", "i", "o", "n", "s",
    ".", "\n" >>

\* ------------------------------------------------------------------ inputs

\* company names: "Acme Corp"
AcmeCorp ==
  << "A", "c", "m", "e", " ", "C", "o", "r", "p" >>

\* "Error Corp"
ErrorCorp ==
  << "E", "r", "r", "o", "r", " ", "C", "o", "r", "p" >>

\* texts a generator may return: "Revenue grew 15% with no errors."
TxtClean ==
  << "R", "e", "v", "e", "n", "u", "e", " ", "g", "r", "e", "w", " ", "1",
    "5", "%", " ", "w", "i", "t", "h", " ", "n", "o", " ", "e", "r", "r",
    "o", "r", "s", "." >>

\* "Error rates fell."
TxtMentionsError ==
  << "E", "r", "r", "o", "r", " ", "r", "a", "t", "e", "s", " ", "f", "e",
    "l", "l", "." >>

\* "This is a Risk-Free Investment."
TxtRiskFree ==
  << "T", "h", "i", "s", " ", "i", "s", " ", "a", " ", "R", "i", "s", "k",
    "-", "F", "r", "e", "e", " ", "I", "n", "v", "e", "s", "t", "m", "e",
    "n", "t", "." >>

\* "You should buy."
TxtAdvice ==
  << "Y", "o", "u", " ", "s", "h", "o", "u", "l", "d", " ", "b", "u", "y",
    "." >>

\* "I recommend it (not financial advice)."
TxtAdviceDisclaimed ==
  << "I", " ", "r", "e", "c", "o", "m", "m", "e", "n", "d", " ", "i", "t",
    " ", "(", "n", "o", "t", " ", "f", "i", "n", "a", "n", "c", "i", "a",
    "l", " ", "a", "d", "v", "i", "c", "e", ")", "." >>

\* str(e) of an exception a generator may raise: "timeout"
MsgTimeout ==
  << "t", "i", "m", "e", "o", "u", "t" >>

\* str(e) of the TypeError of None[:200]
MsgNotSubscriptable ==
  << "'", "N", "o", "n", "e", "T", "y", "p", "e", "'", " ", "o", "b", "j",
    "e", "c", "t", " ", "i", "s", " ", "n", "o", "t", " ", "s", "u", "b",
    "s", "c", "r", "i", "p", "t", "a", "b", "l", "e" >>

\* str(e) of the AttributeError of None.lower()
MsgNoLower ==
  << "'", "N", "o", "n", "e", "T", "y", "p", "e", "'", " ", "o", "b", "j",
    "e", "c", "t", " ", "h", "a", "s", " ", "n", "o", " ", "a", "t", "t",
    "r", "i", "b", "u", "t", "e", " ", "'", "l", "o", "w", "e", "r", "'" >>

\* pieces of the texts given to the policy: "GUARANTEED Returns"
ChGuaranteedReturnsMixed ==
  << "G", "U", "A", "R", "A", "N", "T", "E", "E", "D", " ", "R", "e", "t",
    "u", "r", "n", "s" >>

\* "Risk-Free Investment"
ChRiskFreeMixed ==
  << "R", "i", "s", "k", "-", "F", "r", "e", "e", " ", "I", "n", "v", "e",
    "s", "t", "m", "e", "n", "t" >>

\* "I Recommend"
ChIRecommendMixed ==
  << "I", " ", "R", "e", "c", "o", "m", "m", "e", "n", "d" >>

\* "FOR INFORMATIONAL PURPOSES"
ChForInformationalUpper ==
  << "F", "O", "R", " ", "I", "N", "F", "O", "R", "M", "A", "T", "I", "O",
    "N", "A", "L", " ", "P", "U", "R", "P", "O", "S", "E", "S" >>

\* "guaranteed"
ChGuaranteed ==
  << "g", "u", "a", "r", "a", "n", "t", "e", "e", "d" >>

\* " returns"
ChReturns ==
  << " ", "r", "e", "t", "u", "r", "n", "s" >>

\* " "
ChSpace ==
  << " " >>

\* "ok"
ChOk ==
  << "o", "k" >>

\* ------------------------------------------------- Python built-ins on str

\* str.lower() on the letters the texts use
LowerOf ==
  ("A" :> "a") @@ ("B" :> "b") @@ ("C" :> "c") @@ ("D" :> "d") @@
  ("E" :> "e") @@ ("F" :> "f") @@ ("G" :> "g") @@ ("H" :> "h") @@
  ("I" :> "i") @@ ("J" :> "j") @@ ("K" :> "k") @@ ("L" :> "l") @@
  ("M" :> "m") @@ ("N" :> "n") @@ ("O" :> "o") @@ ("P" :> "p") @@
  ("Q" :> "q") @@ ("R" :> "r") @@ ("S" :> "s") @@ ("T" :> "t") @@
  ("U" :> "u") @@ ("V" :> "v") @@ ("W" :> "w") @@ ("X" :> "x") @@
  ("Y" :> "y") @@ ("Z" :> "z")

UpperLetters == DOMAIN LowerOf

LowerChar(c) == IF c \in UpperLetters THEN LowerOf[c] ELSE c

\* the text matched as it is, without lower()
lower_skipped(s) == s

\* output.lower()
lower(s) == [i \in 1..Len(s) |-> LowerChar(s[i])]

\* `needle in hay` for two str
Contains(needle, hay) ==
  \E i \in 0..(Len(hay) - Len(needle)) :
    \A j \in 1..Len(needle) : hay[i + j] = needle[j]

Whitespace == {" ", "\n", "\t", "\r"}

\* len(output.split()): the number of maximal runs of non-whitespace
WordCount(s) ==
  Cardinality({i \in 1..Len(s) :
                 /\ s[i] \notin Whitespace
                 /\ (i = 1 \/ s[i - 1] \in Whitespace)})

\* the slice bound of output[:200]
PreviewLen == 200

\* output[:200] + "..."
Preview(s) ==
  SubSeq(s, 1, IF Len(s) < PreviewLen THEN Len(s) ELSE PreviewLen) \o Ellipsis

\* round() cutting off the digits beyond the last one kept
RoundHalfEven_truncates(num, den) == num \div den

\* round(): to the nearest integer, a tie to the even one
RoundHalfEven(num, den) ==
  LET q == num \div den
      r == num % den
  IN  IF 2 * r < den THEN q
      ELSE IF 2 * r > den THEN q + 1
      ELSE IF q % 2 = 0 THEN q ELSE q + 1

\* round(x, 4) of a cost held in 10^-5 USD
Round4(cost) == 10 * RoundHalfEven(cost, 10)

\* Optional[str]: None, or a str
None == [some |-> FALSE, val |-> << >>]

Some(s) == [some |-> TRUE, val |-> s]

\* ------------------------------------------------------------- AuditTrail

AgentRole == {"researcher", "analyst", "compliance", "orchestrator"}

\* AuditTrail.__init__
NewAuditTrail == [actions |-> << >>, total_cost |-> 0, total_tokens |-> 0]

\* log_action putting the newest action first
log_action_prepends(trail, action) ==
  [actions      |-> <<action>> \o trail.actions,
   total_cost   |-> trail.total_cost + action.cost_usd,
   total_tokens |-> trail.total_tokens + action.tokens_used]

\* log_action assigning the totals where the code adds to them
log_action_assigns(trail, action) ==
  [actions      |-> Append(trail.actions, action),
   total_cost   |-> action.cost_usd,
   total_tokens |-> action.tokens_used]

\* AuditTrail.log_action
log_action(trail, action) ==
  [actions      |-> Append(trail.actions, action),
   total_cost   |-> trail.total_cost + action.cost_usd,
   total_tokens |-> trail.total_tokens + action.tokens_used]


\* len([a for a in self.actions if a.agent_role == role.value])
CountRole(acts, role) ==
  Cardinality({i \in 1..Len(acts) : acts[i].agent_role = role})

\* len([a for a in self.actions if a.success])
CountSuccess(acts) == Cardinality({i \in 1..Len(acts) : acts[i].success})

\* get_summary counting only the roles that have an entry
get_summary_present_roles(trail) ==
  LET n == Len(trail.actions)
  IN  [total_actions    |-> n,
       total_cost_usd   |-> Round4(trail.total_cost),
       total_tokens     |-> trail.total_tokens,
       actions_by_agent |->
         [role \in {trail.actions[i].agent_role : i \in 1..n} |->
            CountRole(trail.actions, role)],
       success_rate     |->
         IF n > 0
         THEN RoundHalfEven(CountSuccess(trail.actions) * 10000, n)
         ELSE 0]

\* AuditTrail.get_summary
get_summary(trail) ==
  LET n == Len(trail.actions)
  IN  [total_actions    |-> n,
       total_cost_usd   |-> Round4(trail.total_cost),
       total_tokens     |-> trail.total_tokens,
       actions_by_agent |->
         [role \in AgentRole |-> CountRole(trail.actions, role)],
       success_rate     |->
         IF n > 0
         THEN RoundHalfEven(CountSuccess(trail.actions) * 10000, n)
         ELSE 0]

\* AgentAction.to_dict: asdict(self), the nine fields in declaration order
to_dict(a) ==
  [timestamp     |-> a.timestamp,
   agent_role    |-> a.agent_role,
   action_type   |-> a.action_type,
   input_data    |-> a.input_data,
   output_data   |-> a.output_data,
   tokens_used   |-> a.tokens_used,
   cost_usd      |-> a.cost_usd,
   success       |-> a.success,
   error_message |-> a.error_message]

\* the document json.dump is given: the summary, and the actions in list
\* order
Document(trail) ==
  [summary |-> get_summary(trail),
   actions |-> [i \in 1..Len(trail.actions) |-> to_dict(trail.actions[i])]]

\* how a write to the file system may end: open() raises, the write raises
\* after open() has truncated the file, or the document is written
WriteOutcomes == {"open_fails", "write_fails", "written"}

\* export_to_file emptying the ledger once it is written out
export_to_file_drains(trail, old_file, outcome) ==
  IF outcome = "open_fails"
  THEN [trail |-> trail, file |-> old_file, raised |-> TRUE]
  ELSE IF outcome = "write_fails"
  THEN [trail |-> trail, file |-> [state |-> "truncated", doc |-> << >>],
        raised |-> TRUE]
  ELSE [trail |-> NewAuditTrail,
        file |-> [state |-> "complete", doc |-> Document(trail)],
        raised |-> FALSE]

\* AuditTrail.export_to_file: the ledger and the file after the call, and
\* whether an exception left it
export_to_file(trail, old_file, outcome) ==
  IF outcome = "open_fails"
  THEN [trail |-> trail, file |-> old_file, raised |-> TRUE]
  ELSE IF outcome = "write_fails"
  THEN [trail |-> trail, file |-> [state |-> "truncated", doc |-> << >>],
        raised |-> TRUE]
  ELSE [trail |-> trail,
        file |-> [state |-> "complete", doc |-> Document(trail)],
        raised |-> FALSE]

\* -------------------------------------------------------- ComplianceCheck

RestrictedMsg(keyword) == RestrictedMsgPrefix \o keyword \o Apostrophe

\* validate_output reporting the restricted keyword found first in the text
validate_output_text_order(output) ==
  LET output_lower == lower(output)
      hits == {k \in 1..Len(RESTRICTED_KEYWORDS) :
                 Contains(RESTRICTED_KEYWORDS[k], output_lower)}
      at(k) ==
        CHOOSE i \in 0..Len(output_lower) :
          /\ Contains(RESTRICTED_KEYWORDS[k],
                      SubSeq(output_lower, i + 1, Len(output_lower)))
          /\ \A h \in (i + 1)..Len(output_lower) :
               ~Contains(RESTRICTED_KEYWORDS[k],
                         SubSeq(output_lower, h + 1, Len(output_lower)))
      first == CHOOSE k \in hits : \A j \in hits : at(k) >= at(j)
      has_advice ==
        \E i \in 1..Len(advice_indicators) :
          Contains(advice_indicators[i], output_lower)
      has_disclaimer ==
        \/ Contains(NotFinancialAdvice, output_lower)
        \/ Contains(ForInformationalPurposes, output_lower)
  IN  IF hits # {}
      THEN [is_compliant |-> FALSE,
            risk_message |-> Some(RestrictedMsg(RESTRICTED_KEYWORDS[first]))]
      ELSE IF has_advice /\ ~has_disclaimer
      THEN [is_compliant |-> FALSE, risk_message |-> Some(AdviceMsg)]
      ELSE [is_compliant |-> TRUE, risk_message |-> None]

\* validate_output asking for both disclaimer phrases where the code asks
\* for either
validate_output_both_disclaimers(output) ==
  LET output_lower == lower(output)
      hits == {k \in 1..Len(RESTRICTED_KEYWORDS) :
                 Contains(RESTRICTED_KEYWORDS[k], output_lower)}
      first == CHOOSE k \in hits : \A j \in hits : k <= j
      has_advice ==
        \E i \in 1..Len(advice_indicators) :
          Contains(advice_indicators[i], output_lower)
      has_disclaimer ==
        /\ Contains(NotFinancialAdvice, output_lower)
        /\ Contains(ForInformationalPurposes, output_lower)
  IN  IF hits # {}
      THEN [is_compliant |-> FALSE,
            risk_message |-> Some(RestrictedMsg(RESTRICTED_KEYWORDS[first]))]
      ELSE IF has_advice /\ ~has_disclaimer
      THEN [is_compliant |-> FALSE, risk_message |-> Some(AdviceMsg)]
      ELSE [is_compliant |-> TRUE, risk_message |-> None]

\* ComplianceCheck.validate_output: (is_compliant, risk_message)
validate_output(output) ==
  LET output_lower == lower(output)
      hits == {k \in 1..Len(RESTRICTED_KEYWORDS) :
                 Contains(RESTRICTED_KEYWORDS[k], output_lower)}
      first == CHOOSE k \in hits : \A j \in hits : k <= j
      has_advice ==
        \E i \in 1..Len(advice_indicators) :
          Contains(advice_indicators[i], output_lower)
      has_disclaimer ==
        \/ Contains(NotFinancialAdvice, output_lower)
        \/ Contains(ForInformationalPurposes, output_lower)
  IN  IF hits # {}
      THEN [is_compliant |-> FALSE,
            risk_message |-> Some(RestrictedMsg(RESTRICTED_KEYWORDS[first]))]
      ELSE IF has_advice /\ ~has_disclaimer
      THEN [is_compliant |-> FALSE, risk_message |-> Some(AdviceMsg)]
      ELSE [is_compliant |-> TRUE, risk_message |-> None]

\* add_disclaimers with a block that says "not financial advice"
add_disclaimers_not_advice(output) == output \o disclaimer \o NotFinancialAdvice

\* add_disclaimers putting the block in front of the text
add_disclaimers_prepends(output) == disclaimer \o output

\* ComplianceCheck.add_disclaimers
add_disclaimers(output) == output \o disclaimer

\* ---------------------------------------------------------------- MockLLM

\* MockLLM.generate_research
generate_research(company_name) ==
  ResearchTemplate0 \o company_name \o ResearchTemplate1 \o company_name
    \o ResearchTemplate2 \o company_name \o ResearchTemplate3

\* MockLLM.generate_analysis
generate_analysis(company_name, research) ==
  AnalysisTemplate0 \o company_name \o AnalysisTemplate1 \o company_name
    \o AnalysisTemplate2

\* What the object held in self.llm does when a generation method is called:
\* MockLLM's own method runs, or a stand-in returns a str, returns None or
\* raises an Exception.
Mock == [kind |-> "mock", val |-> << >>]

Returns(s) == [kind |-> "str", val |-> s]

ReturnsNone == [kind |-> "none", val |-> << >>]

Raises(msg) == [kind |-> "raise", val |-> msg]

CallLLM(behaviour, mock_output) ==
  IF behaviour.kind = "mock" THEN Returns(mock_output) ELSE behaviour

\* ----------------------------------------------------------------- stages

\* per-call costs, in 10^-5 USD: 0.002 and 0.003
ResearchCost == 200

AnalysisCost == 300

\* the except branch's AgentAction built without its error_message
FailedAction_no_message(role, type, input, msg, now) ==
  [timestamp     |-> now,
   agent_role    |-> role,
   action_type   |-> type,
   input_data    |-> input,
   output_data   |-> << >>,
   tokens_used   |-> 0,
   cost_usd      |-> 0,
   success       |-> FALSE,
   error_message |-> None]

\* a failed stage charged the research unit cost all the same
FailedAction_charges(role, type, input, msg, now) ==
  [timestamp     |-> now,
   agent_role    |-> role,
   action_type   |-> type,
   input_data    |-> input,
   output_data   |-> << >>,
   tokens_used   |-> 0,
   cost_usd      |-> ResearchCost,
   success       |-> FALSE,
   error_message |-> Some(msg)]

FailedAction(role, type, input, msg, now) ==
  [timestamp     |-> now,
   agent_role    |-> role,
   action_type   |-> type,
   input_data    |-> input,
   output_data   |-> << >>,
   tokens_used   |-> 0,
   cost_usd      |-> 0,
   success       |-> FALSE,
   error_message |-> Some(msg)]

\* research_company without its except clause: the collaborator's exception
\* leaves the method and nothing is logged
research_company_propagates(trail, llm, company_name, now) ==
  LET out == CallLLM(llm, generate_research(company_name))
  IN  IF out.kind = "str"
      THEN [trail |->
              log_action(trail,
                [timestamp     |-> now,
                 agent_role    |-> "researcher",
                 action_type   |-> "company_research",
                 input_data    |-> [company_name |-> company_name],
                 output_data   |-> [summary |-> Preview(out.val)],
                 tokens_used   |-> WordCount(out.val),
                 cost_usd      |-> ResearchCost,
                 success       |-> TRUE,
                 error_message |-> None]),
            raised |-> FALSE,
            value  |-> out.val]
      ELSE [trail |-> trail, raised |-> TRUE, value |-> << >>]

\* ResearchAgent.research_company: the ledger after the call and what the
\* call returns (raised: an exception left the method)
research_company(trail, llm, company_name, now) ==
  LET out == CallLLM(llm, generate_research(company_name))
      e == IF out.kind = "raise" THEN out.val ELSE MsgNotSubscriptable
  IN  IF out.kind = "str"
      THEN [trail |->
              log_action(trail,
                [timestamp     |-> now,
                 agent_role    |-> "researcher",
                 action_type   |-> "company_research",
                 input_data    |-> [company_name |-> company_name],
                 output_data   |-> [summary |-> Preview(out.val)],
                 tokens_used   |-> WordCount(out.val),
                 cost_usd      |-> ResearchCost,
                 success       |-> TRUE,
                 error_message |-> None]),
            raised |-> FALSE,
            value  |-> out.val]
      ELSE [trail |->
              log_action(trail,
                FailedAction("researcher", "company_research",
                             [company_name |-> company_name], e, now)),
            raised |-> FALSE,
            value  |-> ResearchErrorPrefix \o e]

\* analyze_investment_potential catching only the generator's own error
\* type: any other exception leaves the method and nothing is logged
analyze_investment_potential_propagates(trail, llm, research_summary, company_name, now) ==
  LET out == CallLLM(llm, generate_analysis(company_name, research_summary))
  IN  IF out.kind = "str"
      THEN [trail |->
              log_action(trail,
                [timestamp     |-> now,
                 agent_role    |-> "analyst",
                 action_type   |-> "investment_analysis",
                 input_data    |-> [company_name |-> company_name],
                 output_data   |-> [analysis |-> Preview(out.val)],
                 tokens_used   |-> WordCount(out.val),
                 cost_usd      |-> AnalysisCost,
                 success       |-> TRUE,
                 error_message |-> None]),
            raised |-> FALSE,
            value  |-> out.val]
      ELSE IF out.kind = "raise"
      THEN [trail |->
              log_action(trail,
                FailedAction("analyst", "investment_analysis",
                             [company_name |-> company_name], out.val, now)),
            raised |-> FALSE,
            value  |-> AnalysisErrorPrefix \o out.val]
      ELSE [trail |-> trail, raised |-> TRUE, value |-> << >>]

\* AnalysisAgent.analyze_investment_potential
analyze_investment_potential(trail, llm, research_summary, company_name, now) ==
  LET out == CallLLM(llm, generate_analysis(company_name, research_summary))
      e == IF out.kind = "raise" THEN out.val ELSE MsgNotSubscriptable
  IN  IF out.kind = "str"
      THEN [trail |->
              log_action(trail,
                [timestamp     |-> now,
                 agent_role    |-> "analyst",
                 action_type   |-> "investment_analysis",
                 input_data    |-> [company_name |-> company_name],
                 output_data   |-> [analysis |-> Preview(out.val)],
                 tokens_used   |-> WordCount(out.val),
                 cost_usd      |-> AnalysisCost,
                 success       |-> TRUE,
                 error_message |-> None]),
            raised |-> FALSE,
            value  |-> out.val]
      ELSE [trail |->
              log_action(trail,
                FailedAction("analyst", "investment_analysis",
                             [company_name |-> company_name], e, now)),
            raised |-> FALSE,
            value  |-> AnalysisErrorPrefix \o e]

\* review_output recording the verdict as the action's success
review_output_records_verdict(trail, content, content_type, now) ==
  LET checked == validate_output(content.val)
  IN  IF content.some
      THEN [trail |->
              log_action(trail,
                [timestamp     |-> now,
                 agent_role    |-> "compliance",
                 action_type   |-> "compliance_review",
                 input_data    |-> [content_type |-> content_type],
                 output_data   |-> [compliant    |-> checked.is_compliant,
                                    risk_message |-> checked.risk_message],
                 tokens_used   |-> 0,
                 cost_usd      |-> 0,
                 success       |-> checked.is_compliant,
                 error_message |-> None]),
            raised |-> FALSE,
            value  |->
              IF checked.is_compliant
              THEN [compliant     |-> TRUE,
                    risk_message  |-> None,
                    final_content |-> Some(add_disclaimers(content.val))]
              ELSE [compliant     |-> FALSE,
                    risk_message  |-> checked.risk_message,
                    final_content |-> None]]
      ELSE [trail |->
              log_action(trail,
                FailedAction("compliance", "compliance_review",
                             [content_type |-> content_type], MsgNoLower, now)),
            raised |-> FALSE,
            value  |-> [compliant     |-> FALSE,
                        risk_message  |-> Some(ComplianceErrorPrefix \o MsgNoLower),
                        final_content |-> None]]

\* ComplianceAgent.review_output; content is Some(str), or None for a
\* caller that passes no str (validate_output then raises on .lower())
review_output(trail, content, content_type, now) ==
  LET checked == validate_output(content.val)
  IN  IF content.some
      THEN [trail |->
              log_action(trail,
                [timestamp     |-> now,
                 agent_role    |-> "compliance",
                 action_type   |-> "compliance_review",
                 input_data    |-> [content_type |-> content_type],
                 output_data   |-> [compliant    |-> checked.is_compliant,
                                    risk_message |-> checked.risk_message],
                 tokens_used   |-> 0,
                 cost_usd      |-> 0,
                 success       |-> TRUE,
                 error_message |-> None]),
            raised |-> FALSE,
            value  |->
              IF checked.is_compliant
              THEN [compliant     |-> TRUE,
                    risk_message  |-> None,
                    final_content |-> Some(add_disclaimers(content.val))]
              ELSE [compliant     |-> FALSE,
                    risk_message  |-> checked.risk_message,
                    final_content |-> None]]
      ELSE [trail |->
              log_action(trail,
                FailedAction("compliance", "compliance_review",
                             [content_type |-> content_type], MsgNoLower, now)),
            raised |-> FALSE,
            value  |-> [compliant     |-> FALSE,
                        risk_message  |-> Some(ComplianceErrorPrefix \o MsgNoLower),
                        final_content |-> None]]

\* ------------------------------------------------------------------ state

VARIABLES
  audit_trail,        \* the AuditTrail: actions, total_cost, total_tokens
  llm,                \* how researcher.llm and analyst.llm behave when called
  pc,                 \* where research_investment stands
  runs,               \* research_investment calls made on this orchestrator
  company_name,       \* its argument
  research_summary,   \* its locals
  analysis_result,
  compliance_result,
  result,             \* what it returned
  now,                \* the clock datetime.now() reads
  invoked,            \* history: the stages invoked by the current call
  stage_calls,        \* history: stage operations invoked so far
  ret,                \* what the last stage operation invoked directly returned
  recorded,           \* history: the actions handed to log_action directly
  output,             \* the text handed to ComplianceCheck
  verdict,            \* what validate_output returned for it
  disclaimed,         \* what add_disclaimers returned for it
  file,               \* the file export_audit_trail writes
  exports             \* history: the export_audit_trail calls made

vars ==
  << audit_trail, llm, pc, runs, company_name, research_summary,
     analysis_result, compliance_result, result, now, invoked, stage_calls,
     ret, recorded, output, verdict, disclaimed, file, exports >>

\* ----------------------------------------------------------------- bounds

\* research_investment calls on one orchestrator
MaxRuns == 2

\* export_audit_trail calls on one orchestrator
MaxExports == 2

\* stage operations invoked directly on one ledger
MaxStageCalls == 2

\* log_action calls made directly on one ledger
MaxLogged == 3

\* pieces joined into one text for the policy
MaxChunks == 2

Companies == {AcmeCorp, ErrorCorp}

GenTexts ==
  {TxtClean, TxtMentionsError, TxtRiskFree, TxtAdvice, TxtAdviceDisclaimed}

Behaviours ==
  {Mock, ReturnsNone, Raises(MsgTimeout)} \cup {Returns(t) : t \in GenTexts}

LLMs == [research : Behaviours, analysis : Behaviours]

\* what a caller may pass to review_output as content
Contents == {None} \cup {Some(t) : t \in GenTexts}

\* (tokens_used, cost_usd, success) of the actions logged directly
Profiles ==
  {[tokens_used |-> 0, cost_usd |-> 0, success |-> FALSE],
   [tokens_used |-> 118, cost_usd |-> ResearchCost, success |-> TRUE],
   [tokens_used |-> 3, cost_usd |-> 4, success |-> TRUE],
   [tokens_used |-> 0, cost_usd |-> 8, success |-> TRUE]}

LedgerInputs ==
  {[timestamp     |-> 0,
    agent_role    |-> role,
    action_type   |-> "action",
    input_data    |-> << >>,
    output_data   |-> << >>,
    tokens_used   |-> p.tokens_used,
    cost_usd      |-> p.cost_usd,
    success       |-> p.success,
    error_message |-> IF p.success THEN None ELSE Some(MsgTimeout)] :
     role \in AgentRole, p \in Profiles}

Chunks ==
  {KwGuaranteedReturns, ChGuaranteedReturnsMixed, KwInsiderTrading,
   KwMarketManipulation, KwMoneyLaundering, ChRiskFreeMixed, IndYouShould,
   ChIRecommendMixed, IndBestInvestment, NotFinancialAdvice,
   ChForInformationalUpper, ChGuaranteed, ChReturns, ChSpace, ChOk}

RECURSIVE Join(_)
Join(pieces) ==
  IF pieces = << >> THEN << >> ELSE Head(pieces) \o Join(Tail(pieces))

PolicyTexts ==
  {Join(pieces) : pieces \in UNION {[1..n -> Chunks] : n \in 0..MaxChunks}}

\* ---------------------------------------------------------- initial state

NoResult == [pending |-> TRUE]

NoVerdict == [pending |-> TRUE]

NoReturn == [op |-> "none", raised |-> FALSE, value |-> << >>]

\* no file at the export path yet
NoFile == [state |-> "absent", doc |-> << >>]

\* AgentOrchestrator.__init__: a fresh ledger shared by the three agents
Fresh ==
  /\ audit_trail = NewAuditTrail
  /\ pc = "Idle"
  /\ runs = 0
  /\ company_name = << >>
  /\ research_summary = << >>
  /\ analysis_result = << >>
  /\ compliance_result = NoResult
  /\ result = NoResult
  /\ now = 0
  /\ invoked = << >>
  /\ stage_calls = 0
  /\ ret = NoReturn
  /\ recorded = << >>
  /\ verdict = NoVerdict
  /\ disclaimed = None
  /\ file = NoFile
  /\ exports = << >>

Init ==
  /\ Fresh
  /\ llm \in LLMs
  /\ output = << >>

\* ------------------------------------- AgentOrchestrator.research_investment

Terminal == {"Succeeded", "Failed", "Raised"}

harness_vars ==
  << ret, recorded, output, verdict, disclaimed, file, exports >>

pipeline_vars ==
  << pc, runs, company_name, research_summary, analysis_result,
     compliance_result, result, invoked >>

Failure(error, trail) ==
  [success |-> FALSE, error |-> error, audit_summary |-> get_summary(trail)]

\* research_investment starting every run with an empty ledger
Call_resets(name) ==
  /\ pc \in {"Idle", "Succeeded", "Failed"}
  /\ runs < MaxRuns
  /\ pc' = "Research"
  /\ runs' = runs + 1
  /\ company_name' = name
  /\ research_summary' = << >>
  /\ analysis_result' = << >>
  /\ compliance_result' = NoResult
  /\ result' = NoResult
  /\ invoked' = << >>
  /\ audit_trail' = NewAuditTrail
  /\ UNCHANGED << llm, now, stage_calls, harness_vars >>

\* a caller calls research_investment(name)
Call(name) ==
  /\ pc \in {"Idle", "Succeeded", "Failed"}
  /\ runs < MaxRuns
  /\ pc' = "Research"
  /\ runs' = runs + 1
  /\ company_name' = name
  /\ research_summary' = << >>
  /\ analysis_result' = << >>
  /\ compliance_result' = NoResult
  /\ result' = NoResult
  /\ invoked' = << >>
  /\ UNCHANGED << audit_trail, llm, now, stage_calls, harness_vars >>

\* step 1: research_summary = self.researcher.research_company(company_name)
Research ==
  /\ pc = "Research"
  /\ LET r == research_company(audit_trail, llm.research, company_name, now)
     IN  /\ audit_trail' = r.trail
         /\ research_summary' = r.value
         /\ pc' = IF r.raised THEN "Raised" ELSE "CheckResearch"
  /\ now' = now + 1
  /\ invoked' = Append(invoked, "research")
  /\ stage_calls' = stage_calls + 1
  /\ UNCHANGED << llm, runs, company_name, analysis_result,
                  compliance_result, result, harness_vars >>

\* a failed research being tried again instead of ending the run
CheckResearch_retries ==
  /\ pc = "CheckResearch"
  /\ result' = result
  /\ pc' = IF Contains(ErrorMarker, research_summary) /\ Len(invoked) < 2
           THEN "Research" ELSE "Analysis"
  /\ UNCHANGED << audit_trail, llm, runs, company_name, research_summary,
                  analysis_result, compliance_result, now, invoked,
                  stage_calls, harness_vars >>

\* if "Error" in research_summary: return the failure payload
CheckResearch ==
  /\ pc = "CheckResearch"
  /\ IF Contains(ErrorMarker, research_summary)
     THEN /\ result' = Failure(research_summary, audit_trail)
          /\ pc' = "Failed"
     ELSE /\ result' = result
          /\ pc' = "Analysis"
  /\ UNCHANGED << audit_trail, llm, runs, company_name, research_summary,
                  analysis_result, compliance_result, now, invoked,
                  stage_calls, harness_vars >>

\* step 2: analysis_result = self.analyst.analyze_investment_potential(...)
Analysis ==
  /\ pc = "Analysis"
  /\ LET r == analyze_investment_potential(audit_trail, llm.analysis,
                                           research_summary, company_name, now)
     IN  /\ audit_trail' = r.trail
         /\ analysis_result' = r.value
         /\ pc' = IF r.raised THEN "Raised" ELSE "CheckAnalysis"
  /\ now' = now + 1
  /\ invoked' = Append(invoked, "analysis")
  /\ stage_calls' = stage_calls + 1
  /\ UNCHANGED << llm, runs, company_name, research_summary,
                  compliance_result, result, harness_vars >>

\* the check after step 2 left out: the run goes on to the review
CheckAnalysis_goes_on ==
  /\ pc = "CheckAnalysis"
  /\ result' = result
  /\ pc' = "Review"
  /\ UNCHANGED << audit_trail, llm, runs, company_name, research_summary,
                  analysis_result, compliance_result, now, invoked,
                  stage_calls, harness_vars >>

\* if "Error" in analysis_result: return the failure payload
CheckAnalysis ==
  /\ pc = "CheckAnalysis"
  /\ IF Contains(ErrorMarker, analysis_result)
     THEN /\ result' = Failure(analysis_result, audit_trail)
          /\ pc' = "Failed"
     ELSE /\ result' = result
          /\ pc' = "Review"
  /\ UNCHANGED << audit_trail, llm, runs, company_name, research_summary,
                  analysis_result, compliance_result, now, invoked,
                  stage_calls, harness_vars >>

\* step 3: compliance_result = self.compliance.review_output(...)
Review ==
  /\ pc = "Review"
  /\ LET r == review_output(audit_trail,
                            Some(research_summary \o BlankLine \o analysis_result),
                            InvestmentResearch, now)
     IN  /\ audit_trail' = r.trail
         /\ compliance_result' = r.value
         /\ pc' = IF r.raised THEN "Raised" ELSE "CheckReview"
  /\ now' = now + 1
  /\ invoked' = Append(invoked, "compliance")
  /\ stage_calls' = stage_calls + 1
  /\ UNCHANGED << llm, runs, company_name, research_summary, analysis_result,
                  result, harness_vars >>

\* if not compliance_result["compliant"]: the failure payload; else success
CheckReview ==
  /\ pc = "CheckReview"
  /\ IF ~compliance_result.compliant
     THEN /\ result' = Failure(ComplianceFailedPrefix
                                 \o compliance_result.risk_message.val,
                               audit_trail)
          /\ pc' = "Failed"
     ELSE /\ result' = [success          |-> TRUE,
                        company_name     |-> company_name,
                        research_summary |-> research_summary,
                        analysis         |-> analysis_result,
                        final_output     |-> compliance_result.final_content.val,
                        audit_summary    |-> get_summary(audit_trail)]
          /\ pc' = "Succeeded"
  /\ UNCHANGED << audit_trail, llm, runs, company_name, research_summary,
                  analysis_result, compliance_result, now, invoked,
                  stage_calls, harness_vars >>

Next ==
  \/ \E name \in Companies : Call(name)
  \/ Research
  \/ CheckResearch
  \/ Analysis
  \/ CheckAnalysis
  \/ Review
  \/ CheckReview

Spec == Init /\ [][Next]_vars

\* the steps of a run that research_investment has started: the method body
\* is straight-line code, so a started run goes on until it returns
RunStep ==
  \/ Research
  \/ CheckResearch
  \/ Analysis
  \/ CheckAnalysis
  \/ Review
  \/ CheckReview

\* the generators given to the two agents in the runs checked for progress
FairLLMs ==
  {[research |-> r, analysis |-> a] :
     r \in {Returns(TxtClean), Returns(TxtMentionsError), Raises(MsgTimeout),
            ReturnsNone},
     a \in {Returns(TxtAdviceDisclaimed), Returns(TxtRiskFree),
            Raises(MsgTimeout)}}

InitFair == Fresh /\ llm \in FairLLMs /\ output = << >>

SpecFair == InitFair /\ [][Next]_vars /\ WF_vars(RunStep)

\* ------------------------------------ AgentOrchestrator.export_audit_trail

\* a caller calls export_audit_trail(filepath) before, between or after
\* calls of research_investment
ExportAuditTrail(outcome) ==
  /\ pc \in {"Idle", "Succeeded", "Failed"}
  /\ Len(exports) < MaxExports
  /\ LET r == export_to_file(audit_trail, file, outcome)
     IN  /\ audit_trail' = r.trail
         /\ file' = r.file
         /\ exports' = Append(exports, [raised |-> r.raised,
                                        ledger |-> audit_trail,
                                        file   |-> r.file])
  /\ UNCHANGED << llm, pipeline_vars, now, stage_calls, ret, recorded,
                  output, verdict, disclaimed >>

\* orchestrators whose runs are followed with exports
ExportLLMs ==
  {[research |-> Returns(TxtClean), analysis |-> Returns(TxtAdviceDisclaimed)],
   [research |-> Returns(TxtClean), analysis |-> Returns(TxtRiskFree)],
   [research |-> Returns(TxtClean), analysis |-> Raises(MsgTimeout)]}

InitExport ==
  /\ Fresh
  /\ llm \in ExportLLMs
  /\ output = << >>

NextExport ==
  \/ Next
  \/ \E outcome \in WriteOutcomes : ExportAuditTrail(outcome)

SpecExport == InitExport /\ [][NextExport]_vars

\* --------------------------------- the stage operations, invoked directly

\* researcher.research_company(name)
CallResearch(name) ==
  /\ stage_calls < MaxStageCalls
  /\ LET r == research_company(audit_trail, llm.research, name, now)
     IN  /\ audit_trail' = r.trail
         /\ ret' = [op |-> "research_company", raised |-> r.raised,
                    value |-> r.value]
  /\ now' = now + 1
  /\ stage_calls' = stage_calls + 1
  /\ UNCHANGED << llm, pipeline_vars, recorded, output, verdict, disclaimed,
                  file, exports >>

\* analyst.analyze_investment_potential(research, name)
CallAnalysis(research, name) ==
  /\ stage_calls < MaxStageCalls
  /\ LET r == analyze_investment_potential(audit_trail, llm.analysis,
                                           research, name, now)
     IN  /\ audit_trail' = r.trail
         /\ ret' = [op |-> "analyze_investment_potential",
                    raised |-> r.raised, value |-> r.value]
  /\ now' = now + 1
  /\ stage_calls' = stage_calls + 1
  /\ UNCHANGED << llm, pipeline_vars, recorded, output, verdict, disclaimed,
                  file, exports >>

\* compliance.review_output(content, "investment_research")
CallReview(content) ==
  /\ stage_calls < MaxStageCalls
  /\ LET r == review_output(audit_trail, content, InvestmentResearch, now)
     IN  /\ audit_trail' = r.trail
         /\ ret' = [op |-> "review_output", raised |-> r.raised,
                    value |-> r.value]
  /\ now' = now + 1
  /\ stage_calls' = stage_calls + 1
  /\ UNCHANGED << llm, pipeline_vars, recorded, output, verdict, disclaimed,
                  file, exports >>

NextStages ==
  \/ \E name \in Companies : CallResearch(name)
  \/ \E name \in Companies : CallAnalysis(TxtClean, name)
  \/ \E content \in Contents : CallReview(content)

SpecStages == Init /\ [][NextStages]_vars

\* ------------------------------------------ the ledger, written directly

\* audit_trail.log_action(action)
LogAction(action) ==
  /\ Len(recorded) < MaxLogged
  /\ audit_trail' = log_action(audit_trail, action)
  /\ recorded' = Append(recorded, action)
  /\ UNCHANGED << llm, pipeline_vars, now, stage_calls, ret, output, verdict,
                  disclaimed, file, exports >>

InitLedger ==
  /\ Fresh
  /\ llm = [research |-> Mock, analysis |-> Mock]
  /\ output = << >>

NextLedger == \E action \in LedgerInputs : LogAction(action)

SpecLedger == InitLedger /\ [][NextLedger]_vars

\* ------------------------------------------- the policy, applied to a text

\* ComplianceCheck.validate_output(output)
ValidateOutput ==
  /\ verdict = NoVerdict
  /\ verdict' = validate_output(output)
  /\ UNCHANGED << audit_trail, llm, pipeline_vars, now, stage_calls, ret,
                  recorded, output, disclaimed, file, exports >>

\* ComplianceCheck.add_disclaimers(output)
AddDisclaimers ==
  /\ disclaimed = None
  /\ disclaimed' = Some(add_disclaimers(output))
  /\ UNCHANGED << audit_trail, llm, pipeline_vars, now, stage_calls, ret,
                  recorded, output, verdict, file, exports >>

InitPolicy ==
  /\ Fresh
  /\ llm = [research |-> Mock, analysis |-> Mock]
  /\ output \in PolicyTexts

NextPolicy ==
  \/ ValidateOutput
  \/ AddDisclaimers

SpecPolicy == InitPolicy /\ [][NextPolicy]_vars

\* ----------------------------------------------------------------- claims

IsStr(v) == v \in Seq(STRING)

IsOptionalStr(v) ==
  /\ DOMAIN v = {"some", "val"}
  /\ v.some \in BOOLEAN
  /\ IsStr(v.val)
  /\ (~v.some => v = None)

\* a stage's return value has the shape its signature promises
WellFormedReturn(r) ==
  IF r.op = "review_output"
  THEN /\ DOMAIN r.value = {"compliant", "risk_message", "final_content"}
       /\ r.value.compliant \in BOOLEAN
       /\ IsOptionalStr(r.value.risk_message)
       /\ IsOptionalStr(r.value.final_content)
       /\ r.value.compliant = r.value.final_content.some
       /\ r.value.compliant = ~r.value.risk_message.some
  ELSE /\ r.op \in {"research_company", "analyze_investment_potential"}
       /\ IsStr(r.value)

\* C1: every invocation of a stage operation (research_company,
\* analyze_investment_potential, review_output) appends exactly one
\* AgentAction to the ledger, leaving the earlier entries in place, and
\* returns a well-formed value without raising, whether its collaborator
\* returns normally or raises.
C1_StageRecordsExactlyOne ==
  [][stage_calls' # stage_calls =>
       /\ ~ret'.raised
       /\ WellFormedReturn(ret')
       /\ Len(audit_trail'.actions) = Len(audit_trail.actions) + 1
       /\ SubSeq(audit_trail'.actions, 1, Len(audit_trail.actions))
            = audit_trail.actions]_vars

\* C1 witness: a stage whose collaborator returned and a stage whose
\* collaborator raised have each left one entry
C1_Witness ==
  /\ stage_calls = 2
  /\ Len(audit_trail.actions) = 2
  /\ audit_trail.actions[1].success
  /\ audit_trail.actions[1].agent_role = "researcher"
  /\ ~audit_trail.actions[2].success
  /\ ret.op = "review_output"
  /\ ~ret.value.compliant

\* what the generation step of each stage gives for the current call
ResearchGenerated ==
  CallLLM(llm.research, generate_research(company_name))

AnalysisGenerated ==
  CallLLM(llm.analysis, generate_analysis(company_name, research_summary))

Returned == pc \in {"Succeeded", "Failed"}

\* C2: the orchestrator short-circuits on the first stage failure. If the
\* research collaborator fails, research_investment returns a Failure, on a
\* fresh orchestrator after exactly 1 recorded action, and neither analysis
\* nor compliance is ever invoked; if the analysis collaborator fails, it
\* returns a Failure, on a fresh orchestrator after exactly 2 recorded
\* actions, and compliance is never invoked.
C2_ShortCircuit ==
  /\ (runs > 0 /\ ResearchGenerated.kind # "str") =>
       /\ invoked \in {<< >>, <<"research">>}
       /\ pc \in Terminal =>
            /\ pc = "Failed"
            /\ ~result.success
            /\ invoked = <<"research">>
            /\ runs = 1 => /\ result.audit_summary.total_actions = 1
                           /\ Len(audit_trail.actions) = 1
  /\ (Len(invoked) >= 2 /\ AnalysisGenerated.kind # "str") =>
       /\ invoked = <<"research", "analysis">>
       /\ pc \in Terminal =>
            /\ pc = "Failed"
            /\ ~result.success
            /\ runs = 1 => /\ result.audit_summary.total_actions = 2
                           /\ Len(audit_trail.actions) = 2

\* C2 witness: a fresh orchestrator has returned after the analysis
\* collaborator raised
C2_Witness ==
  /\ pc = "Failed"
  /\ runs = 1
  /\ llm.analysis = Raises(MsgTimeout)
  /\ invoked = <<"research", "analysis">>
  /\ audit_trail.actions[1].success
  /\ ~audit_trail.actions[2].success

\* letters compared without regard to case, independently of lower()
SameLetter(c, d) == c = d \/ (c \in UpperLetters /\ LowerOf[c] = d)

\* text contains the (lower-case) phrase in some letter case
ContainsAnyCase(phrase, text) ==
  \E i \in 0..(Len(text) - Len(phrase)) :
    \A j \in 1..Len(phrase) : SameLetter(text[i + j], phrase[j])

HasRestricted(text) ==
  \E k \in 1..Len(RESTRICTED_KEYWORDS) :
    ContainsAnyCase(RESTRICTED_KEYWORDS[k], text)

HasAdvice(text) ==
  \E i \in 1..Len(advice_indicators) :
    ContainsAnyCase(advice_indicators[i], text)

HasDisclaimer(text) ==
  \/ ContainsAnyCase(NotFinancialAdvice, text)
  \/ ContainsAnyCase(ForInformationalPurposes, text)

EndsWith(s, suffix) ==
  /\ Len(suffix) <= Len(s)
  /\ SubSeq(s, Len(s) - Len(suffix) + 1, Len(s)) = suffix

\* both generation steps return a str without failing
BothGenerated ==
  /\ runs > 0
  /\ ResearchGenerated.kind = "str"
  /\ AnalysisGenerated.kind = "str"

\* C3: for every company name and every generator that returns clean,
\* advice-free text (no restricted phrase, no advice-like phrasing) for both
\* the research and the analysis step without failing, research_investment
\* on a fresh orchestrator returns Success with final_output ending in the
\* disclaimer block and audit_summary.total_actions = 3.
C3_CleanTextSucceeds ==
  (/\ pc \in Terminal
   /\ runs = 1
   /\ BothGenerated
   /\ ~HasRestricted(ResearchGenerated.val)
   /\ ~HasAdvice(ResearchGenerated.val)
   /\ ~HasRestricted(AnalysisGenerated.val)
   /\ ~HasAdvice(AnalysisGenerated.val)) =>
    /\ pc = "Succeeded"
    /\ result.success
    /\ EndsWith(result.final_output, disclaimer)
    /\ result.audit_summary.total_actions = 3

\* the text review_output would be given for the current call
Combined == ResearchGenerated.val \o BlankLine \o AnalysisGenerated.val

SuccessKeys ==
  {"success", "company_name", "research_summary", "analysis", "final_output",
   "audit_summary"}

FailureKeys == {"success", "error", "audit_summary"}

SummaryKeys ==
  {"total_actions", "total_cost_usd", "total_tokens", "actions_by_agent",
   "success_rate"}

\* C5: research_investment never raises: for every company name and every
\* collaborator behaviour (returning or raising at either generation step)
\* it returns either a Success payload (success = true with company_name,
\* research_summary, analysis, final_output, audit_summary) or a Failure
\* payload (success = false with error, audit_summary), and audit_summary is
\* present in both.
C5_AlwaysAPayload ==
  /\ pc # "Raised"
  /\ Returned =>
       /\ result # NoResult
       /\ result.success = (pc = "Succeeded")
       /\ DOMAIN result = IF result.success THEN SuccessKeys ELSE FailureKeys
       /\ DOMAIN result.audit_summary = SummaryKeys
       /\ result.audit_summary = get_summary(audit_trail)
       /\ result.success =>
            /\ result.company_name = company_name
            /\ IsStr(result.research_summary)
            /\ IsStr(result.analysis)
            /\ IsStr(result.final_output)
       /\ ~result.success => IsStr(result.error)

\* C5 witness: the research generator returned no str, the analysis
\* generator would raise, and the call has returned its Failure payload
C5_Witness ==
  /\ pc = "Failed"
  /\ llm.research = ReturnsNone
  /\ llm.analysis = Raises(MsgTimeout)
  /\ result.error = ResearchErrorPrefix \o MsgNotSubscriptable

RECURSIVE SumOf(_, _)
SumOf(acts, field) ==
  IF acts = << >> THEN 0
  ELSE acts[1][field] + SumOf(Tail(acts), field)

\* the nearest multiple of 10^-4 USD (10 units) to a cost
NearestTenThousandth(cost, rounded) ==
  /\ rounded % 10 = 0
  /\ \A m \in 0..(cost \div 10 + 1) :
       (cost - rounded) * (cost - rounded) <= (cost - 10 * m) * (cost - 10 * m)

\* C6: for any sequence of log_action calls on an AuditTrail,
\* get_summary().total_actions equals the number of calls, total_tokens
\* equals the exact sum of the recorded tokens_used, and total_cost_usd
\* equals the sum of the recorded cost_usd rounded to 4 decimals.
C6_SummaryTotals ==
  LET s == get_summary(audit_trail)
      cost == SumOf(recorded, "cost_usd")
  IN  /\ s.total_actions = Len(recorded)
      /\ s.total_tokens = SumOf(recorded, "tokens_used")
      /\ NearestTenThousandth(cost, s.total_cost_usd)

\* C6 witness: three calls whose costs sum to a value that rounding changes
C6_Witness ==
  /\ Len(recorded) = 3
  /\ SumOf(recorded, "cost_usd") = 216
  /\ SumOf(recorded, "tokens_used") = 118
  /\ get_summary(audit_trail).total_cost_usd = 220

RECURSIVE SumOver(_, _)
SumOver(f, S) ==
  IF S = {} THEN 0
  ELSE LET x == CHOOSE y \in S : TRUE
       IN  f[x] + SumOver(f, S \ {x})

\* C7: in every reachable ledger state, get_summary().actions_by_agent has
\* all four roles (researcher, analyst, compliance, orchestrator) as keys,
\* each count is >= 0, and the counts sum to total_actions.
C7_ActionsByAgent ==
  LET s == get_summary(audit_trail)
      by == s.actions_by_agent
  IN  /\ DOMAIN by = {"researcher", "analyst", "compliance", "orchestrator"}
      /\ \A role \in DOMAIN by : by[role] \in Nat
      /\ SumOver(by, DOMAIN by) = s.total_actions

\* C7 witness: three entries, two roles with entries and two with none
C7_Witness ==
  LET by == get_summary(audit_trail).actions_by_agent
  IN  /\ Len(audit_trail.actions) = 3
      /\ by["orchestrator"] = 2
      /\ by["analyst"] = 1
      /\ by["researcher"] = 0
      /\ by["compliance"] = 0

Validated == verdict # NoVerdict

\* the restricted keywords before "guaranteed returns" in the table
EarlierThanGuaranteedReturns ==
  {KwInsiderTrading, KwMarketManipulation, KwMoneyLaundering}

CitesGuaranteedReturns ==
  verdict =
    [is_compliant |-> FALSE,
     risk_message |->
       Some(RestrictedMsgPrefix \o KwGuaranteedReturns \o Apostrophe)]

\* C8, as stated: validate_output returns NonCompliant citing the phrase
\* "guaranteed returns" for every text that contains "guaranteed returns"
\* in any letter case, whatever else the text contains.
C8_AlwaysCitesGuaranteedReturns ==
  (Validated /\ ContainsAnyCase(KwGuaranteedReturns, output)) =>
    CitesGuaranteedReturns

\* C8, amended: for every text that contains "guaranteed returns" in any
\* letter case validate_output returns NonCompliant, and it cites
\* "guaranteed returns" unless the text also contains, in any letter case,
\* a phrase earlier in the table ("insider trading", "market manipulation",
\* "money laundering").
C8_CitesGuaranteedReturnsUnlessEarlier ==
  (Validated /\ ContainsAnyCase(KwGuaranteedReturns, output)) =>
    /\ ~verdict.is_compliant
    /\ (\A kw \in EarlierThanGuaranteedReturns : ~ContainsAnyCase(kw, output))
         => CitesGuaranteedReturns

\* C8 witness: the phrase occurs in upper and lower case only, beside a
\* phrase later in the table, and is the one cited
C8_Witness ==
  /\ Validated
  /\ ContainsAnyCase(KwGuaranteedReturns, output)
  /\ ~Contains(KwGuaranteedReturns, output)
  /\ ContainsAnyCase(KwRiskFreeInvestment, output)
  /\ CitesGuaranteedReturns

\* the restricted keyword a text contains that comes first in the table
FirstInTable(text) ==
  LET hits == {k \in 1..Len(RESTRICTED_KEYWORDS) :
                 ContainsAnyCase(RESTRICTED_KEYWORDS[k], text)}
  IN  RESTRICTED_KEYWORDS[CHOOSE k \in hits : \A j \in hits : k <= j]

\* the first position at which text contains phrase in some letter case
PositionOf(phrase, text) ==
  CHOOSE i \in 0..(Len(text) - Len(phrase)) :
    /\ \A j \in 1..Len(phrase) : SameLetter(text[i + j], phrase[j])
    /\ \A h \in 0..(i - 1) :
         \E j \in 1..Len(phrase) : ~SameLetter(text[h + j], phrase[j])

\* C9: when a text contains one or more restricted phrases, in any letter
\* case, validate_output returns NonCompliant with the reason
\* "Output contains restricted keyword: '<phrase>'", <phrase> being the
\* matching phrase that comes earliest in RESTRICTED_KEYWORDS (not the one
\* earliest in the text), whether or not the text also reads as advice.
C9_FirstInTableOrder ==
  (Validated /\ HasRestricted(output)) =>
    verdict =
      [is_compliant |-> FALSE,
       risk_message |->
         Some(RestrictedMsgPrefix \o FirstInTable(output) \o Apostrophe)]

\* C9 witness: two restricted phrases, the one later in the table first in
\* the text, and the one earlier in the table cited
C9_Witness ==
  /\ Validated
  /\ ContainsAnyCase(KwInsiderTrading, output)
  /\ ContainsAnyCase(KwGuaranteedReturns, output)
  /\ PositionOf(KwGuaranteedReturns, output)
       < PositionOf(KwInsiderTrading, output)
  /\ verdict.risk_message =
       Some(RestrictedMsgPrefix \o KwInsiderTrading \o Apostrophe)

\* C10: for a text with no restricted phrase, validate_output returns
\* NonCompliant("Output appears to provide financial advice without
\* disclaimer") exactly when the text contains an advice indicator ("you
\* should", "i recommend", "best investment") and neither disclaimer phrase
\* ("not financial advice", "for informational purposes"); in every other
\* such case it returns Compliant.
C10_AdviceWithoutDisclaimer ==
  (Validated /\ ~HasRestricted(output)) =>
    IF HasAdvice(output) /\ ~HasDisclaimer(output)
    THEN verdict = [is_compliant |-> FALSE, risk_message |-> Some(AdviceMsg)]
    ELSE verdict = [is_compliant |-> TRUE, risk_message |-> None]

\* C10 witness: advice beside one of the two disclaimer phrases is Compliant
C10_Witness ==
  /\ Validated
  /\ ContainsAnyCase(IndIRecommend, output)
  /\ ContainsAnyCase(ForInformationalPurposes, output)
  /\ ~ContainsAnyCase(NotFinancialAdvice, output)
  /\ verdict = [is_compliant |-> TRUE, risk_message |-> None]

\* C11: after any sequence of log_action calls, get_summary().success_rate
\* is 0 when the ledger is empty and otherwise 100 * (number of actions with
\* success = true / number of actions) rounded to 2 decimals, here the
\* nearest whole number of hundredths of a percent.
C11_SuccessRate ==
  LET rate == get_summary(audit_trail).success_rate
      n == Len(recorded)
      ok == Cardinality({i \in 1..n : recorded[i].success})
      off == rate * n - ok * 10000
  IN  IF n = 0 THEN rate = 0
      ELSE /\ rate \in 0..10000
           /\ 2 * off <= n
           /\ -2 * off <= n

\* C11 witness: two of three recorded actions succeeded: 66.67
C11_Witness ==
  /\ Len(recorded) = 3
  /\ Cardinality({i \in 1..3 : recorded[i].success}) = 2
  /\ get_summary(audit_trail).success_rate = 6667

\* C12: every AgentAction recorded by a stage has an error_message if and
\* only if its success is false, and every entry with success = false has
\* empty output_data, tokens_used = 0 and cost_usd = 0.0.
C12_FailedEntries ==
  \A i \in 1..Len(audit_trail.actions) :
    LET a == audit_trail.actions[i]
    IN  /\ a.error_message.some = ~a.success
        /\ ~a.success =>
             /\ DOMAIN a.output_data = {}
             /\ a.tokens_used = 0
             /\ a.cost_usd = 0

\* C12 witness: a failed analysis entry beside a successful review entry
C12_Witness ==
  /\ Len(audit_trail.actions) = 2
  /\ audit_trail.actions[1].agent_role = "analyst"
  /\ ~audit_trail.actions[1].success
  /\ audit_trail.actions[1].error_message = Some(MsgTimeout)
  /\ audit_trail.actions[2].agent_role = "compliance"
  /\ audit_trail.actions[2].success
  /\ DOMAIN audit_trail.actions[2].output_data # {}

\* C13: in a Success result research_summary and analysis are exactly the
\* texts the research and analysis stages returned, and final_output is the
\* research text, a blank line, the analysis text and the fixed disclaimer
\* block, so the reviewed text is a prefix of final_output and final_output
\* ends with the disclaimer block.
C13_SuccessContents ==
  pc = "Succeeded" =>
    LET reviewed == ResearchGenerated.val \o BlankLine \o AnalysisGenerated.val
    IN  /\ result.research_summary = ResearchGenerated.val
        /\ result.analysis = AnalysisGenerated.val
        /\ result.final_output = reviewed \o disclaimer
        /\ SubSeq(result.final_output, 1, Len(reviewed)) = reviewed
        /\ EndsWith(result.final_output, disclaimer)

\* C13 witness: the stock MockLLM's texts for "Acme Corp" were released
C13_Witness ==
  /\ pc = "Succeeded"
  /\ llm = [research |-> Mock, analysis |-> Mock]
  /\ company_name = AcmeCorp
  /\ Len(result.final_output) > Len(disclaimer) + PreviewLen

\* C14: export_audit_trail leaves the ledger (actions, total_cost,
\* total_tokens) unchanged whether the write succeeds or fails; an export
\* that succeeds writes the ledger's current summary and its actions in
\* insertion order; so two successful exports with no log_action between
\* them write identical output. It may be called before, between or after
\* runs.
C14_ExportLeavesLedger ==
  [][Len(exports') > Len(exports) =>
       LET this == exports'[Len(exports')]
       IN  /\ audit_trail' = audit_trail
           /\ this.ledger = audit_trail
           /\ ~this.raised =>
                /\ file'.state = "complete"
                /\ file'.doc.summary = get_summary(audit_trail)
                /\ Len(file'.doc.actions) = Len(audit_trail.actions)
                /\ \A i \in 1..Len(audit_trail.actions) :
                     file'.doc.actions[i] = audit_trail.actions[i]
                /\ \A k \in 1..Len(exports) :
                     (~exports[k].raised /\ exports[k].ledger = audit_trail)
                       => exports[k].file = file']_vars

\* C14 witness: after one run a write failed and left a truncated file, the
\* next export of the same three-entry ledger succeeded, and the ledger is
\* as it was
C14_Witness ==
  /\ runs = 1
  /\ Len(exports) = 2
  /\ exports[1].raised
  /\ exports[1].file.state = "truncated"
  /\ ~exports[2].raised
  /\ exports[2].ledger = exports[1].ledger
  /\ Len(audit_trail.actions) = 3
  /\ audit_trail = exports[2].ledger
  /\ file.doc.summary.total_actions = 3

IsPrefix(s, t) == Len(s) <= Len(t) /\ SubSeq(t, 1, Len(s)) = s

RolesOf(acts) == [i \in 1..Len(acts) |-> acts[i].agent_role]

\* C15: the ledger only grows by appending in pipeline order: at every point
\* of a single research_investment run on a fresh orchestrator the
\* agent_role values in the ledger are a prefix of researcher, analyst,
\* compliance, and every step leaves the entries recorded before it
\* unchanged and in place (the old ledger is a prefix of the new one).
C15_AppendInPipelineOrder ==
  [][/\ IsPrefix(audit_trail.actions, audit_trail'.actions)
     /\ Len(audit_trail'.actions) <= Len(audit_trail.actions) + 1
     /\ runs' <= 1 =>
          IsPrefix(RolesOf(audit_trail'.actions),
                   <<"researcher", "analyst", "compliance">>)]_vars

\* C15 witness: the first run has recorded all three roles, the analysis
\* text being one the orchestrator takes for a failure
C15_Witness ==
  /\ runs = 1
  /\ pc = "CheckReview"
  /\ RolesOf(audit_trail.actions) = <<"researcher", "analyst", "compliance">>
  /\ llm.analysis = Returns(TxtAdvice)

NoStageTwice(seq) == \A i, j \in 1..Len(seq) : seq[i] = seq[j] => i = j

\* C16: every research_investment run terminates in Succeeded or Failed
\* after at most three stage invocations: within one run each stage is
\* invoked at most once (so none is retried after a failure), no stage is
\* invoked once the outcome of the run has been decided, and a started run
\* always reaches Succeeded or Failed.
C16_TerminatesWithoutRetry ==
  /\ [](Len(invoked) <= 3 /\ NoStageTwice(invoked) /\ pc # "Raised")
  /\ [][Len(invoked') > Len(invoked) => pc \notin Terminal]_vars
  /\ [][(pc \in Terminal /\ runs' = runs) =>
          (invoked' = invoked /\ audit_trail' = audit_trail /\ pc' = pc)]_vars
  /\ (pc \notin {"Idle", "Succeeded", "Failed"}) ~> (pc \in {"Succeeded", "Failed"})

\* C16 witness: two runs in a row failed at research, each after invoking
\* the research stage once and nothing else
C16_Witness ==
  /\ runs = 2
  /\ pc = "Failed"
  /\ invoked = <<"research">>
  /\ Len(audit_trail.actions) = 2
  /\ \A i \in 1..2 : ~audit_trail.actions[i].success

\* C17: cost attribution follows the fixed per-role unit costs. On a fresh
\* orchestrator the returned audit summary's total_cost_usd is 0.0 when the
\* research generation fails, 0.002 when it succeeds and the analysis
\* generation fails, and 0.005 when both generation steps succeed, whether
\* compliance then accepts or rejects; a compliance entry always has cost 0
\* and 0 tokens. (cost_usd counted in units of 0.00001 USD.)
C17_CostAttribution ==
  /\ \A i \in 1..Len(audit_trail.actions) :
       audit_trail.actions[i].agent_role = "compliance" =>
         /\ audit_trail.actions[i].cost_usd = 0
         /\ audit_trail.actions[i].tokens_used = 0
  /\ (Returned /\ runs = 1) =>
       LET cost == result.audit_summary.total_cost_usd
           analysed == \E i \in 1..Len(invoked) : invoked[i] = "analysis"
       IN  /\ ResearchGenerated.kind # "str" => cost = 0
           /\ (ResearchGenerated.kind = "str" /\ analysed
                 /\ AnalysisGenerated.kind # "str") => cost = 200
           /\ (ResearchGenerated.kind = "str" /\ analysed
                 /\ AnalysisGenerated.kind = "str") => cost = 500

\* C17 witness: both generation steps succeeded, compliance rejected the
\* text, and the summary of the failed run reports 0.005
C17_Witness ==
  /\ runs = 1
  /\ pc = "Failed"
  /\ invoked = <<"research", "analysis", "compliance">>
  /\ ~compliance_result.compliant
  /\ result.audit_summary.total_cost_usd = 500
  /\ audit_trail.actions[3].cost_usd = 0

\* C18: a compliance rejection is recorded in the ledger as a successful
\* action. Whenever the policy evaluation completes, the compliance entry
\* has success = true and no error_message, even if the content is rejected
\* (output_data.compliant false); so a run on a fresh orchestrator that
\* fails only because of a compliance rejection reports
\* audit_summary.success_rate = 100 with 3 actions.
C18_RejectionRecordedAsSuccess ==
  /\ \A i \in 1..Len(audit_trail.actions) :
       audit_trail.actions[i].agent_role = "compliance" =>
         /\ audit_trail.actions[i].success
         /\ audit_trail.actions[i].error_message = None
  /\ (pc = "Failed" /\ runs = 1 /\ Len(invoked) = 3) =>
       /\ ~audit_trail.actions[3].output_data.compliant
       /\ result.error = ComplianceFailedPrefix
                           \o audit_trail.actions[3].output_data.risk_message.val
       /\ result.audit_summary.total_actions = 3
       /\ result.audit_summary.success_rate = 10000

\* C18 witness: the text was rejected for advice without a disclaimer, and
\* the failed run's summary reports three actions, all successful
C18_Witness ==
  /\ pc = "Failed"
  /\ runs = 1
  /\ Len(audit_trail.actions) = 3
  /\ audit_trail.actions[3].success
  /\ audit_trail.actions[3].output_data.risk_message = Some(AdviceMsg)
  /\ result.audit_summary.success_rate = 10000

FirstRunSucceeded ==
  /\ Len(audit_trail.actions) >= 3
  /\ audit_trail.actions[3].agent_role = "compliance"
  /\ audit_trail.actions[3].output_data.compliant

\* C19: the ledger belongs to the orchestrator and research_investment never
\* resets it: a call starts with the ledger the earlier calls left, and the
\* audit_summary returned by the k-th call on the same orchestrator counts
\* the actions, tokens and cost of all k calls together, not only those of
\* the k-th run (total_actions = 6 after two successful runs).
C19_LedgerAccumulatesAcrossRuns ==
  /\ [](Returned =>
          /\ result.audit_summary.total_actions = stage_calls
          /\ result.audit_summary.total_actions = Len(audit_trail.actions)
          /\ result.audit_summary.total_tokens =
               SumOf(audit_trail.actions, "tokens_used")
          /\ result.audit_summary.total_cost_usd =
               Round4(SumOf(audit_trail.actions, "cost_usd"))
          /\ (pc = "Succeeded" /\ runs = 2 /\ FirstRunSucceeded) =>
               result.audit_summary.total_actions = 6)
  /\ [][runs' = runs + 1 => audit_trail' = audit_trail]_vars

\* C19 witness: the second of two successful runs returned a summary of six
\* actions and of the cost of both runs
C19_Witness ==
  /\ runs = 2
  /\ pc = "Succeeded"
  /\ FirstRunSucceeded
  /\ Len(invoked) = 3
  /\ result.audit_summary.total_actions = 6
  /\ result.audit_summary.total_cost_usd = 1000

\* the phrases validate_output looks for
PolicyPhrases ==
  {RESTRICTED_KEYWORDS[k] : k \in 1..Len(RESTRICTED_KEYWORDS)}
    \cup {advice_indicators[i] : i \in 1..Len(advice_indicators)}
    \cup {NotFinancialAdvice, ForInformationalPurposes}

\* C20: appending the disclaimer never changes the policy verdict: for every
\* text x, validate_output(add_disclaimers(x)) gives the same outcome as
\* validate_output(x). The disclaimer block holds no restricted phrase, no
\* advice indicator and no recognized disclaimer phrase, and none can arise
\* across the join (the block starts with a line break, which no phrase
\* contains); so a text released as compliant is still compliant under
\* validate_output once the disclaimer is appended.
C20_DisclaimerKeepsVerdict ==
  /\ \A p \in PolicyPhrases :
       /\ ~ContainsAnyCase(p, disclaimer)
       /\ ~Contains(<< "\n" >>, p)
  /\ disclaimer[1] = "\n"
  /\ (Validated /\ disclaimed.some) =>
       /\ EndsWith(disclaimed.val, disclaimer)
       /\ Len(disclaimed.val) = Len(output) + Len(disclaimer)
       /\ validate_output(disclaimed.val) = verdict
       /\ verdict.is_compliant => validate_output(disclaimed.val).is_compliant

\* C20 witness: a text giving advice without a disclaimer phrase was
\* rejected, and the disclaimer was appended to it
C20_Witness ==
  /\ Validated
  /\ disclaimed.some
  /\ ContainsAnyCase(IndYouShould, output)
  /\ verdict = [is_compliant |-> FALSE, risk_message |-> Some(AdviceMsg)]
  /\ disclaimed.val = output \o disclaimer

====
